---- MODULE Spec2Model ----
(***************************************************************************)
(* A model of cmd/dla/main.go: the resolver (getContainersByNames), the    *)
(* tag formatter (tagConfig), the line framer (LineWriter), the fan-in     *)
(* writer (FanInWriter) and the orchestrator (logContainers).              *)
(*                                                                         *)
(* Strings and byte slices are sequences of byte values (naturals).        *)
(***************************************************************************)
EXTENDS Naturals, Sequences, FiniteSets, TLC

VARIABLES
    \* ---- tagConfig, run on two orderings of one list of display names
    noColor,    \* color.NoColor: the colour library's global switch
    tagsA,      \* the first caller's tags slice
    tagsB,      \* the second caller's tags slice: tagsA in another order
    tblA,       \* the map cm built from tagsA (a sequence of at most one map)
    tblB,       \* the map cm built from tagsB
    \* ---- getContainersByNames
    names,      \* the filters (flag.Args())
    rpc,        \* where getContainersByNames is
    gpc,        \* where the lookup goroutine of each filter is
    gres,       \* what each goroutine's getContainerForName returned
    ch,         \* the buffered channel of contr values
    chClosed,   \* close(ch) was called
    rwg,        \* the WaitGroup's counter
    rconts,     \* the local conts
    ret,        \* what getContainersByNames returned
    \* ---- the callers of FanInWriter.Write (in logContainers: the framers)
    fw,         \* the FanInWriter each caller writes to: "out" or "err"
    wpc,        \* where each caller's FanInWriter.Write call is
    wbuf,       \* the b of the call
    wn,         \* the n of the call's fullWrite
    werr,       \* the err of the call (0 is nil)
    mu,         \* the holders of each FanInWriter's mutex
    dest,       \* the Write calls each destination took: who wrote, which bytes
    shortWrites,\* the destinations may take part of a Write without an error
    wErrsLeft,  \* how many more Write errors the destinations may give
    \* ---- main, logContainers, the follow goroutines, the framers
    proc,       \* the process: "running" or "exited"
    exitCode,   \* its exit status
    mpc,        \* where main is
    cname,      \* conts: the task name label of each container
    input,      \* the bytes each container's stream will produce in all
    tpc,        \* where each container's follow goroutine is
    twg,        \* the counter of logContainers' WaitGroup
    src,        \* the bytes client.Logs has yet to write to each pipe
    pipeBuf,    \* the bytes of the pipe Write in progress that are not read yet
    pipeClosed, \* the pipe's writer was closed
    sbuf,       \* the scanner's buffered bytes that are not consumed yet
    sEOF,       \* the scanner's Read returned io.EOF
    fpc,        \* where each framer goroutine is
    wtok,       \* scan.Bytes(): the token of the unit being written
    logErrsLeft \* how many more errors client.Logs may return

tagVars == <<noColor, tagsA, tagsB, tblA, tblB>>
resVars == <<names, rpc, gpc, gres, ch, chClosed, rwg, rconts, ret>>

fanVars == <<fw, wpc, wbuf, wn, werr, mu, dest, shortWrites, wErrsLeft>>

strVars == <<proc, exitCode, mpc, cname, input, tpc, twg, src, pipeBuf, pipeClosed,
             sbuf, sEOF, fpc, wtok, logErrsLeft>>

vars == <<tagVars, resVars, fanVars, strVars>>

(***************************************************************************)
(* Bytes                                                                   *)
(***************************************************************************)
NL == 10
CR == 13
SP == 32
ESC == 27

\* Bounds of the model
MaxNameLen == 2
MaxTags == 2
MaxFilters == 2
MaxIDs == 2
NumCallers == 3
PayloadLen == 2
MaxWriteErrs == 1
MaxScanTokenSize == 3
MaxStream == 4
MaxChunk == 2
NumConts == 2
MaxFaults == 1

(***************************************************************************)
(* Helpers on sequences                                                    *)
(***************************************************************************)
Range(s) == {s[i] : i \in 1..Len(s)}

SeqsUpTo(S, n) == UNION {[1..k -> S] : k \in 0..n}

RECURSIVE Concat(_)
Concat(ss) == IF ss = <<>> THEN <<>> ELSE Head(ss) \o Concat(Tail(ss))

\* strings.Repeat(" ", n)
Repeat(b, n) == [i \in 1..n |-> b]

\* fmt's %d of a small natural
RECURSIVE Decimal(_)
Decimal(n) == IF n < 10 THEN <<48 + n>> ELSE Decimal(n \div 10) \o <<48 + (n % 10)>>

\* Go's < on strings: bytewise lexicographic
RECURSIVE StrLess(_, _)
StrLess(a, b) ==
    IF b = <<>> THEN FALSE
    ELSE IF a = <<>> THEN TRUE
    ELSE IF Head(a) # Head(b) THEN Head(a) < Head(b)
    ELSE StrLess(Tail(a), Tail(b))

RECURSIVE InsertSorted(_, _)
InsertSorted(x, s) ==
    IF s = <<>> THEN <<x>>
    ELSE IF StrLess(x, Head(s)) THEN <<x>> \o s
    ELSE <<Head(s)>> \o InsertSorted(x, Tail(s))

\* The mutant of sort.Strings: the slice is left in the caller's order.
SortStringsSkipped(s) == s

\* sort.Strings(tags)
RECURSIVE SortStrings(_)
SortStrings(s) == IF s = <<>> THEN <<>> ELSE InsertSorted(Head(s), SortStrings(Tail(s)))

(***************************************************************************)
(* Colours (github.com/fatih/color)                                        *)
(***************************************************************************)
FgHiRed == 91

\* var colors: the palette, as SGR attribute numbers
colors == <<91, 92, 93, 94, 95, 96, 31, 32, 33, 34, 35, 36>>

\* (*color.Color).Sprint(s) of a string: s wrapped in the attribute's escape
\* sequence and the reset sequence, or s itself when colours are off.
Sprint(attr, s) ==
    IF noColor THEN s
    ELSE <<ESC, 91>> \o Decimal(attr) \o <<109>> \o s \o <<ESC, 91, 48, 109>>

(***************************************************************************)
(* tagConfig                                                               *)
(***************************************************************************)
postFix == <<SP, 124, SP>>

\* the first loop of tagConfig: the longest tag
RECURSIVE TagLength(_)
TagLength(tags) ==
    IF tags = <<>> THEN 0
    ELSE LET rest == TagLength(Tail(tags))
         IN  IF Len(Head(tags)) > rest THEN Len(Head(tags)) ELSE rest

\* The mutant of FmtTag: the padding is left out.
FmtTagUnpadded(tag, tagLength, pf) == tag \o pf

\* fmtTag: the tag, padded with spaces to tagLength, and the separator
FmtTag(tag, tagLength, pf) == tag \o Repeat(SP, tagLength - Len(tag)) \o pf

\* cm[tag] = v
MapPut(cm, k, v) == [x \in (DOMAIN cm) \cup {k} |-> IF x = k THEN v ELSE cm[x]]

\* The mutant of TagLoop: the colour of the next position is taken.
RECURSIVE TagLoopNextColor(_, _, _, _, _)
TagLoopNextColor(tags, i, tagLength, pf, cm) ==
    IF i > Len(tags) THEN cm
    ELSE TagLoopNextColor(tags, i + 1, tagLength, pf,
                          MapPut(cm, tags[i],
                                 Sprint(colors[(i % Len(colors)) + 1],
                                        FmtTag(tags[i], tagLength, pf))))

\* the second loop of tagConfig, from the 1-based position i on
RECURSIVE TagLoop(_, _, _, _, _)
TagLoop(tags, i, tagLength, pf, cm) ==
    IF i > Len(tags) THEN cm
    ELSE TagLoop(tags, i + 1, tagLength, pf,
                 MapPut(cm, tags[i],
                        Sprint(colors[((i - 1) % Len(colors)) + 1],
                               FmtTag(tags[i], tagLength, pf))))

\* tagConfig(tags, postFix): the map cm behind the returned lookup
TagConfig(tags, pf) ==
    LET sorted == SortStrings(tags)
    IN  TagLoop(sorted, 1, TagLength(sorted), pf, [x \in {} |-> <<>>])

\* the function tagConfig returns: cm[tag], nil for a key cm does not hold
TagLookup(cm, tag) == IF tag \in DOMAIN cm THEN cm[tag] ELSE <<>>

\* How a call of the returned function ends: indexing a map does not panic
\* and the function has no error result; the value is the slice, nil (<<>>)
\* for a key cm does not hold.
LookupOutcome(cm, tag) == [failed |-> FALSE, value |-> TagLookup(cm, tag)]

\* The display names of the model: the strings over two letters, "" included
NameChars == {97, 98}
Names == SeqsUpTo(NameChars, MaxNameLen)

\* The orderings of a sequence
Perms(s) ==
    {[i \in 1..Len(s) |-> s[f[i]]] :
        f \in {g \in [1..Len(s) -> 1..Len(s)] :
                  \A i, j \in 1..Len(s) : g[i] = g[j] => i = j}}

\* The variables of the resolver, while another part of the program is run
ResIdle ==
    /\ names = <<>>
    /\ rpc = "idle"
    /\ gpc = <<>>
    /\ gres = <<>>
    /\ ch = <<>>
    /\ chClosed = FALSE
    /\ rwg = 0
    /\ rconts = <<>>
    /\ ret = <<>>

\* The variables of the fan-in writers, while another part is run
FanIdle ==
    /\ fw = <<>>
    /\ wpc = <<>>
    /\ wbuf = <<>>
    /\ wn = <<>>
    /\ werr = <<>>
    /\ mu = [s \in {"out", "err"} |-> {}]
    /\ dest = [s \in {"out", "err"} |-> <<>>]
    /\ shortWrites = FALSE
    /\ wErrsLeft = 0

\* The variables of the orchestrator, while another part is run
StrIdle ==
    /\ proc = "running"
    /\ exitCode = 0
    /\ mpc = "idle"
    /\ cname = <<>>
    /\ input = <<>>
    /\ tpc = <<>>
    /\ twg = 0
    /\ src = <<>>
    /\ pipeBuf = <<>>
    /\ pipeClosed = <<>>
    /\ sbuf = <<>>
    /\ sEOF = <<>>
    /\ fpc = <<>>
    /\ wtok = <<>>
    /\ logErrsLeft = 0

\* Two more lists of display names: "svc22" and "svc1"; and one name more
\* than the palette has colours, the letters from "a" on, from the r-th on
\* and around.
ExampleTags == <<<<115, 118, 99, 50, 50>>, <<115, 118, 99, 49>>>>
LongTags(r) ==
    [i \in 1..(Len(colors) + 1) |-> <<97 + ((i + r) % (Len(colors) + 1))>>]
MoreTagLists == {ExampleTags} \cup {LongTags(r) : r \in 0..Len(colors)}

Reversed(s) == [i \in 1..Len(s) |-> s[Len(s) + 1 - i]]

TagInit ==
    /\ ResIdle
    /\ FanIdle
    /\ StrIdle
    /\ noColor \in BOOLEAN
    /\ tagsA \in SeqsUpTo(Names, MaxTags) \cup MoreTagLists
    /\ tagsB \in (IF tagsA \in MoreTagLists THEN {tagsA, Reversed(tagsA)}
                  ELSE Perms(tagsA))
    /\ tblA = <<>>
    /\ tblB = <<>>

\* tagFmt := tagConfig(tags, " | ") on the first ordering
BuildTableA ==
    /\ tblA = <<>>
    /\ tblA' = <<TagConfig(tagsA, postFix)>>
    /\ UNCHANGED <<noColor, tagsA, tagsB, tblB, resVars, fanVars, strVars>>

\* tagFmt := tagConfig(tags, " | ") on the second ordering
BuildTableB ==
    /\ tblB = <<>>
    /\ tblB' = <<TagConfig(tagsB, postFix)>>
    /\ UNCHANGED <<noColor, tagsA, tagsB, tblA, resVars, fanVars, strVars>>

TagNext == BuildTableA \/ BuildTableB

SpecTag == TagInit /\ [][TagNext]_vars

\* a tag without the escape sequences Sprint put around it
RECURSIVE DropThrough(_, _)
DropThrough(b, x) ==
    IF b = <<>> THEN <<>>
    ELSE IF Head(b) = x THEN Tail(b)
    ELSE DropThrough(Tail(b), x)

Undecorated(b) ==
    IF b # <<>> /\ Head(b) = ESC
    THEN LET r == DropThrough(b, 109) IN SubSeq(r, 1, Len(r) - 4)
    ELSE b

\* C6 (tag determinism): the tables built from two orderings of the same
\* display names give every name the same tag bytes.
TagDeterminism ==
    (tblA # <<>> /\ tblB # <<>>) =>
        \A name \in Names : TagLookup(tblA[1], name) = TagLookup(tblB[1], name)

TagDeterminismWitness ==
    /\ tblA # <<>>
    /\ tblB # <<>>
    /\ Len(tagsA) = 2
    /\ tagsB[1] = tagsA[2]
    /\ StrLess(tagsA[2], tagsA[1])
    /\ Len(tagsA[1]) # Len(tagsA[2])
    /\ ~noColor

\* C7 (fixed width): every tag of one table has, without its colour
\* decoration, the length of the longest name plus the separator's.
FixedWidth ==
    tblA # <<>> =>
        LET lens == {Len(t) : t \in Range(tagsA)} \cup {0}
            longest == CHOOSE m \in lens : \A l \in lens : l <= m
        IN  \A name \in Range(tagsA) :
                Len(Undecorated(TagLookup(tblA[1], name))) = longest + Len(postFix)

FixedWidthWitness ==
    /\ tblA # <<>>
    /\ \E s, t \in Range(tagsA) : Len(s) = 0 /\ Len(t) = MaxNameLen
    /\ ~noColor

(***************************************************************************)
(* getContainersByNames                                                    *)
(***************************************************************************)
\* The container IDs the daemon may list, and the filters of the model
ContIDs == 1..MaxIDs
FilterNames == {"web", "db"}

\* A successful client.ListContainers: some containers, each listed once
Listings ==
    {l \in SeqsUpTo(ContIDs, MaxIDs) : \A i, j \in 1..Len(l) : l[i] = l[j] => i = j}

\* What client.ListContainers may return: a listing, or an error (err > 0;
\* the model numbers an error by the call that got it)
ListResults(call) ==
    {[conts |-> l, err |-> 0] : l \in Listings} \cup {[conts |-> <<>>, err |-> call]}

\* The variables of the tag tables, while another part of the program is run
TagIdle ==
    /\ noColor = FALSE
    /\ tagsA = <<>>
    /\ tagsB = <<>>
    /\ tblA = <<>>
    /\ tblB = <<>>

ResInit ==
    /\ TagIdle
    /\ FanIdle
    /\ StrIdle
    /\ names \in SeqsUpTo(FilterNames, MaxFilters)
    /\ rpc = "start"
    /\ gpc = [i \in 1..Len(names) |-> "unborn"]
    /\ gres = [i \in 1..Len(names) |-> [conts |-> <<>>, err |-> 0]]
    /\ ch = <<>>
    /\ chClosed = FALSE
    /\ rwg = 0
    /\ rconts = <<>>
    /\ ret = <<>>

\* case 0: return getAllContainers(client)
ResolveAll ==
    /\ rpc = "start"
    /\ Len(names) = 0
    /\ \E r \in ListResults(1) :
          ret' = <<[conts |-> r.conts, isNil |-> r.err # 0, err |-> r.err]>>
    /\ rpc' = "returned"
    /\ UNCHANGED <<names, gpc, gres, ch, chClosed, rwg, rconts, tagVars, fanVars, strVars>>

\* default: ch := make(chan contr, len(names)); wg.Add(len(names)); go func...
ResolveSpawn ==
    /\ rpc = "start"
    /\ Len(names) > 0
    /\ rwg' = rwg + Len(names)
    /\ gpc' = [i \in 1..Len(names) |-> "lookup"]
    /\ rpc' = "wait"
    /\ UNCHANGED <<names, gres, ch, chClosed, rconts, ret, tagVars, fanVars, strVars>>

\* iconts, err := getContainerForName(client, name)
GoLookup(i) ==
    /\ gpc[i] = "lookup"
    /\ \E r \in ListResults(i) : gres' = [gres EXCEPT ![i] = r]
    /\ gpc' = [gpc EXCEPT ![i] = "send"]
    /\ UNCHANGED <<names, rpc, ch, chClosed, rwg, rconts, ret, tagVars, fanVars, strVars>>

\* ch <- contr{conts: iconts, err: err}, and the deferred wg.Done().  The
\* channel holds len(names) values, so the send never blocks.
GoSend(i) ==
    /\ gpc[i] = "send"
    /\ Len(ch) < Len(names)
    /\ ~chClosed
    /\ ch' = Append(ch, gres[i])
    /\ rwg' = rwg - 1
    /\ gpc' = [gpc EXCEPT ![i] = "done"]
    /\ UNCHANGED <<names, rpc, gres, chClosed, rconts, ret, tagVars, fanVars, strVars>>

\* wg.Wait(); close(ch)
ResolveWait ==
    /\ rpc = "wait"
    /\ rwg = 0
    /\ chClosed' = TRUE
    /\ rpc' = "range"
    /\ UNCHANGED <<names, gpc, gres, ch, rwg, rconts, ret, tagVars, fanVars, strVars>>

\* The mutant of RangeCh: a failed lookup is skipped.
RECURSIVE RangeChSkipsErr(_, _)
RangeChSkipsErr(c, conts) ==
    IF c = <<>> THEN [conts |-> conts, isNil |-> FALSE, err |-> 0, returns |-> FALSE]
    ELSE IF Head(c).err # 0 THEN RangeChSkipsErr(Tail(c), conts)
    ELSE RangeChSkipsErr(Tail(c), conts \o Head(c).conts)

\* for contr := range ch: return nil, contr.err on the first error received,
\* conts = append(conts, contr.conts...) otherwise
RECURSIVE RangeCh(_, _)
RangeCh(c, conts) ==
    IF c = <<>> THEN [conts |-> conts, isNil |-> FALSE, err |-> 0, returns |-> FALSE]
    ELSE IF Head(c).err # 0
         THEN [conts |-> <<>>, isNil |-> TRUE, err |-> Head(c).err, returns |-> TRUE]
    ELSE RangeCh(Tail(c), conts \o Head(c).conts)

\* the range loop over the closed channel
ResolveRange ==
    /\ rpc = "range"
    /\ chClosed
    /\ LET r == RangeCh(ch, rconts)
       IN  IF r.returns
           THEN /\ ret' = <<[conts |-> r.conts, isNil |-> r.isNil, err |-> r.err]>>
                /\ rpc' = "returned"
                /\ UNCHANGED rconts
           ELSE /\ rconts' = r.conts
                /\ rpc' = "dedupe"
                /\ UNCHANGED ret
    /\ ch' = <<>>
    /\ UNCHANGED <<names, gpc, gres, chClosed, rwg, tagVars, fanVars, strVars>>

\* The mutant of DedupeLoop: the test of found is the wrong way round.
RECURSIVE DedupeLoopInverted(_, _, _)
DedupeLoopInverted(conts, found, out) ==
    IF conts = <<>> THEN out
    ELSE IF Head(conts) \in found
         THEN DedupeLoopInverted(Tail(conts), found, Append(out, Head(conts)))
    ELSE DedupeLoopInverted(Tail(conts), found, out)

\* the dedupe loop: out := conts[:0]; a container is appended when its ID is
\* not in found.  Nothing is ever put in found.
RECURSIVE DedupeLoop(_, _, _)
DedupeLoop(conts, found, out) ==
    IF conts = <<>> THEN out
    ELSE IF Head(conts) \notin found
         THEN DedupeLoop(Tail(conts), found, Append(out, Head(conts)))
    ELSE DedupeLoop(Tail(conts), found, out)

\* found := map[string]struct{}{}; the loop; return out, nil
ResolveDedupe ==
    /\ rpc = "dedupe"
    /\ ret' = <<[conts |-> DedupeLoop(rconts, {}, <<>>), isNil |-> FALSE, err |-> 0]>>
    /\ rpc' = "returned"
    /\ UNCHANGED <<names, gpc, gres, ch, chClosed, rwg, rconts, tagVars, fanVars, strVars>>

ResNext ==
    \/ ResolveAll
    \/ ResolveSpawn
    \/ \E i \in 1..Len(names) : GoLookup(i)
    \/ \E i \in 1..Len(names) : GoSend(i)
    \/ ResolveWait
    \/ ResolveRange
    \/ ResolveDedupe

SpecResolve == ResInit /\ [][ResNext]_vars

\* C3 (dedup): with filters given and every lookup successful, each container
\* ID is in the returned list exactly once.
DedupInvariant ==
    (rpc = "returned" /\ Len(names) > 0 /\ ret[1].err = 0) =>
        /\ \A i, j \in 1..Len(ret[1].conts) :
               ret[1].conts[i] = ret[1].conts[j] => i = j
        /\ Range(ret[1].conts) = UNION {Range(gres[i].conts) : i \in 1..Len(names)}

\* C4 (all or nothing): with filters given, a failed lookup makes
\* getContainersByNames return an error and a nil list.
AllOrNothing ==
    (rpc = "returned" /\ Len(names) > 0 /\ \E i \in 1..Len(names) : gres[i].err # 0) =>
        /\ ret[1].err # 0
        /\ ret[1].err \in {gres[i].err : i \in 1..Len(names)}
        /\ ret[1].isNil
        /\ ret[1].conts = <<>>

\* a lookup failed after another one's containers were received
AllOrNothingWitness ==
    /\ rpc = "returned"
    /\ Len(names) = 2
    /\ gres[1].err # 0
    /\ gres[2].err = 0
    /\ gres[2].conts # <<>>
    /\ gpc[2] = "done"
    /\ ret[1].err = 1

(***************************************************************************)
(* FanInWriter                                                             *)
(***************************************************************************)
Sinks == {"out", "err"}

\* The bytes a destination holds: its Write calls, one after the other
Stream(s) == Concat([i \in 1..Len(dest[s]) |-> dest[s][i].bytes])

\* What one Write(b) on the destination may do: <<lw, err>>.  It takes all of
\* b; or, a destination that may write short, a part of it without an error;
\* or it fails: with any part of b taken when the destination may write
\* short, with nothing taken otherwise.
DestWrites(b) ==
    {<<Len(b), 0>>}
    \cup (IF shortWrites THEN {<<k, 0>> : k \in 1..(Len(b) - 1)} ELSE {})
    \cup (IF wErrsLeft > 0
          THEN {<<k, 1>> : k \in (IF shortWrites THEN 0..(Len(b) - 1) ELSE {0})}
          ELSE {})

\* The mutant of FiwLock: the mutex does not exclude.
FiwLockNoMutex(p) ==
    /\ proc = "running"
    /\ wpc[p] = "call"
    /\ mu' = [mu EXCEPT ![fw[p]] = @ \cup {p}]
    /\ wpc' = [wpc EXCEPT ![p] = "locked"]
    /\ wn' = [wn EXCEPT ![p] = 0]
    /\ werr' = [werr EXCEPT ![p] = 0]
    /\ UNCHANGED <<fw, wbuf, dest, shortWrites, wErrsLeft, tagVars, resVars, strVars>>

\* fiw.mu.Lock(), and the entry of fullWrite(fiw.out, b)
FiwLock(p) ==
    /\ proc = "running"
    /\ wpc[p] = "call"
    /\ mu[fw[p]] = {}
    /\ mu' = [mu EXCEPT ![fw[p]] = {p}]
    /\ wpc' = [wpc EXCEPT ![p] = "locked"]
    /\ wn' = [wn EXCEPT ![p] = 0]
    /\ werr' = [werr EXCEPT ![p] = 0]
    /\ UNCHANGED <<fw, wbuf, dest, shortWrites, wErrsLeft, tagVars, resVars, strVars>>

\* The mutant of SinkAppend: the destination puts the new bytes first.
SinkPrepend(d, rec) == <<rec>> \o d

\* w.Write(b[n:]) on os.Stdout or os.Stderr: the bytes the destination accepted
\* follow all it accepted before
SinkAppend(d, rec) == Append(d, rec)

\* one turn of fullWrite's loop: lw, err := w.Write(b[n:]); n += lw
FullWriteStep(p) ==
    /\ proc = "running"
    /\ wpc[p] = "locked"
    /\ werr[p] = 0
    /\ wn[p] < Len(wbuf[p])
    /\ LET rest == SubSeq(wbuf[p], wn[p] + 1, Len(wbuf[p]))
       IN  \E r \in DestWrites(rest) :
             /\ dest' = [dest EXCEPT ![fw[p]] =
                           SinkAppend(@, [who |-> p, via |-> "fiw", tok |-> wtok[p],
                                          bytes |-> SubSeq(rest, 1, r[1])])]
             /\ wn' = [wn EXCEPT ![p] = @ + r[1]]
             /\ werr' = [werr EXCEPT ![p] = r[2]]
             /\ wErrsLeft' = IF r[2] # 0 THEN wErrsLeft - 1 ELSE wErrsLeft
    /\ UNCHANGED <<fw, wpc, wbuf, mu, shortWrites, tagVars, resVars, strVars>>

\* The mutant of FiwUnlock: Write calls w.Write once instead of fullWrite, and
\* returns what it returned.
FiwUnlockAfterOneWrite(p) ==
    /\ proc = "running"
    /\ wpc[p] = "locked"
    /\ werr[p] # 0 \/ wn[p] > 0
    /\ mu' = [mu EXCEPT ![fw[p]] = @ \ {p}]
    /\ IF p \in DOMAIN fpc
       THEN /\ wpc' = [wpc EXCEPT ![p] = "idle"]
            /\ fpc' = [fpc EXCEPT ![p] = IF werr[p] # 0 THEN "werr" ELSE "scan"]
       ELSE /\ wpc' = [wpc EXCEPT ![p] = "ret"]
            /\ UNCHANGED fpc
    /\ UNCHANGED <<fw, wbuf, wn, werr, dest, shortWrites, wErrsLeft, tagVars, resVars,
                   proc, exitCode, mpc, cname, input, tpc, twg, src, pipeBuf, pipeClosed,
                   sbuf, sEOF, wtok, logErrsLeft>>

\* fullWrite returns (on an error, or with n = len(b)); fiw.mu.Unlock(); return.
\* When the caller is a framer, its own fullWrite returns with what Write
\* returned (n = len(b), or an error: its loop does not turn twice), and the
\* framer goes on to scan.Scan(), or to report the error.
FiwUnlock(p) ==
    /\ proc = "running"
    /\ wpc[p] = "locked"
    /\ werr[p] # 0 \/ wn[p] >= Len(wbuf[p])
    /\ mu' = [mu EXCEPT ![fw[p]] = @ \ {p}]
    /\ IF p \in DOMAIN fpc
       THEN /\ wpc' = [wpc EXCEPT ![p] = "idle"]
            /\ fpc' = [fpc EXCEPT ![p] = IF werr[p] # 0 THEN "werr" ELSE "scan"]
       ELSE /\ wpc' = [wpc EXCEPT ![p] = "ret"]
            /\ UNCHANGED fpc
    /\ UNCHANGED <<fw, wbuf, wn, werr, dest, shortWrites, wErrsLeft, tagVars, resVars,
                   proc, exitCode, mpc, cname, input, tpc, twg, src, pipeBuf, pipeClosed,
                   sbuf, sEOF, wtok, logErrsLeft>>

\* The payload of caller p: PayloadLen bytes no other caller writes
Payload(p) == [i \in 1..PayloadLen |-> 16 * p + i]

\* NumCallers goroutines, each about to call Write(b) on the one FanInWriter
FanInit ==
    /\ TagIdle
    /\ ResIdle
    /\ proc = "running"
    /\ exitCode = 0
    /\ mpc = "idle"
    /\ cname = <<>>
    /\ input = <<>>
    /\ tpc = <<>>
    /\ twg = 0
    /\ src = <<>>
    /\ pipeBuf = <<>>
    /\ pipeClosed = <<>>
    /\ sbuf = <<>>
    /\ sEOF = <<>>
    /\ fpc = <<>>
    /\ wtok = [p \in 1..NumCallers |-> <<>>]
    /\ logErrsLeft = 0
    /\ fw = [p \in 1..NumCallers |-> "out"]
    /\ wpc = [p \in 1..NumCallers |-> "call"]
    /\ wbuf = [p \in 1..NumCallers |-> Payload(p)]
    /\ wn = [p \in 1..NumCallers |-> 0]
    /\ werr = [p \in 1..NumCallers |-> 0]
    /\ mu = [s \in Sinks |-> {}]
    /\ dest = [s \in Sinks |-> <<>>]
    /\ shortWrites = TRUE
    /\ wErrsLeft \in 0..MaxWriteErrs

FanNext ==
    \E p \in DOMAIN wpc :
        \/ FiwLock(p)
        \/ FullWriteStep(p)
        \/ FiwUnlock(p)

SpecFanIn == FanInit /\ [][FanNext]_vars

\* the callers in the order in which their first bytes reached the destination
RECURSIVE FirstSeen(_, _)
FirstSeen(ws, seen) ==
    IF ws = <<>> THEN <<>>
    ELSE IF Head(ws).who \in seen THEN FirstSeen(Tail(ws), seen)
    ELSE <<Head(ws).who>> \o FirstSeen(Tail(ws), seen \cup {Head(ws).who})

\* C1 (atomic fan-in): the bytes at the destination are the callers'
\* payloads one after the other, each caller's bytes in one piece: every
\* piece is a whole payload, but for a call that failed and for the call
\* that is still writing, whose piece is the part of its payload written so far.
AtomicFanIn ==
    LET ord == FirstSeen(dest["out"], {})
    IN  /\ Stream("out") =
              Concat([k \in 1..Len(ord) |-> SubSeq(wbuf[ord[k]], 1, wn[ord[k]])])
        /\ \A k \in 1..Len(ord) :
              (werr[ord[k]] = 0 /\ (k < Len(ord) \/ wpc[ord[k]] = "ret"))
                  => wn[ord[k]] = Len(wbuf[ord[k]])

\* every caller has returned without an error, the destination took some
\* payload in parts, and the payloads are not in the callers' order
AtomicFanInWitness ==
    /\ \A p \in DOMAIN wpc : wpc[p] = "ret" /\ werr[p] = 0
    /\ Len(dest["out"]) > NumCallers
    /\ dest["out"][1].who = NumCallers
    /\ Stream("out") # Concat([p \in 1..NumCallers |-> Payload(p)])

(***************************************************************************)
(* LineWriter: the pipe, the scanner and the framer goroutine              *)
(***************************************************************************)
\* Container c's framers: the one of its OutputStream, the one of its ErrorStream
OutFramer(c) == 2 * c - 1
ErrFramer(c) == 2 * c
ContOf(f) == (f + 1) \div 2

\* the color argument of LineWriter: nil (0) for the OutputStream
FramerColor(f) == IF f % 2 = 0 THEN FgHiRed ELSE 0

\* tag := tagFmt(name)
FramerTag(f) == TagLookup(tblA[1], cname[ContOf(f)])

Min(a, b) == IF a < b THEN a ELSE b

\* bytes.IndexByte, from 1; 0 when x is not in b
IndexByte(b, x) ==
    IF \E i \in 1..Len(b) : b[i] = x
    THEN CHOOSE i \in 1..Len(b) : b[i] = x /\ \A j \in 1..(i - 1) : b[j] # x
    ELSE 0

\* bufio's dropCR
DropCR(d) == IF Len(d) > 0 /\ d[Len(d)] = CR THEN SubSeq(d, 1, Len(d) - 1) ELSE d

\* The mutant of ScanLines: the token keeps its newline, as in scanLinesKeepCR.
ScanLinesKeepCR(data, atEOF) ==
    IF atEOF /\ data = <<>> THEN [advance |-> 0, token |-> <<>>, has |-> FALSE]
    ELSE LET i == IndexByte(data, NL)
         IN  IF i > 0 THEN [advance |-> i, token |-> SubSeq(data, 1, i), has |-> TRUE]
             ELSE IF atEOF THEN [advance |-> Len(data), token |-> data, has |-> TRUE]
             ELSE [advance |-> 0, token |-> <<>>, has |-> FALSE]

\* bufio.ScanLines, the split function of bufio.NewScanner(r)
ScanLines(data, atEOF) ==
    IF atEOF /\ data = <<>> THEN [advance |-> 0, token |-> <<>>, has |-> FALSE]
    ELSE LET i == IndexByte(data, NL)
         IN  IF i > 0
             THEN [advance |-> i, token |-> DropCR(SubSeq(data, 1, i - 1)), has |-> TRUE]
             ELSE IF atEOF
             THEN [advance |-> Len(data), token |-> DropCR(data), has |-> TRUE]
             ELSE [advance |-> 0, token |-> <<>>, has |-> FALSE]

\* fmt.Sprint of a []byte: its bytes in decimal, "[97 98]"
RECURSIVE DecimalList(_)
DecimalList(b) ==
    IF b = <<>> THEN <<>>
    ELSE IF Len(b) = 1 THEN Decimal(b[1])
    ELSE Decimal(Head(b)) \o <<SP>> \o DecimalList(Tail(b))

\* color.Sprint(scan.Bytes()): Sprint is handed the []byte, not a string
SprintBytes(attr, b) == Sprint(attr, <<91>> \o DecimalList(b) \o <<93>>)

\* logLine
LogLine(f, token) ==
    IF FramerColor(f) # 0 THEN SprintBytes(FramerColor(f), token) ELSE token

\* append(tag, append(logLine, []byte("\n")...)...)
Unit(tag, logLine) == tag \o (logLine \o <<NL>>)

\* The capacity of the slice []byte(s) of a string of n bytes that escapes to
\* the heap: n rounded up to the allocator's next size class.
SizeClasses == {0, 8, 16, 24, 32, 48, 64, 80, 96, 112, 128}
RoundUpSize(n) == CHOOSE k \in SizeClasses : k >= n /\ \A j \in SizeClasses : j >= n => k <= j

\* append(tag, x...) writes x behind tag in tag's own array when that has room
\* for it, and returns a slice of that array; otherwise it returns a new array.
AppendsInPlace(tag, x) == tag # <<>> /\ Len(tag) + Len(x) <= RoundUpSize(Len(tag))

\* the unit u is a slice of tag's array
SliceOfTag(tag, u) == u # <<>> /\ tag # <<>> /\ Len(u) <= RoundUpSize(Len(tag))

\* The two framers of a container are given the same tag slice.
Sibling(f) == IF f % 2 = 0 THEN f - 1 ELSE f + 1

\* what the slice u of tag's array holds after x was written behind tag
Overwritten(tag, u, x) ==
    [i \in 1..Len(u) |->
        IF i > Len(tag) /\ i - Len(tag) <= Len(x) THEN x[i - Len(tag)] ELSE u[i]]

\* The units of the framers after framer f built its unit from logLine: when
\* append wrote in place, a unit of the sibling that is a slice of the same
\* array now holds f's bytes where the two overlap.
UnitsAfterAppend(f, logLine) ==
    LET tag == FramerTag(f)
        x == logLine \o <<NL>>
    IN  [g \in DOMAIN wbuf |->
            IF g = f THEN Unit(tag, logLine)
            ELSE IF g = Sibling(f) /\ AppendsInPlace(tag, x) /\ SliceOfTag(tag, wbuf[g])
                 THEN Overwritten(tag, wbuf[g], x)
                 ELSE wbuf[g]]

\* a write of fmt.Printf or fmt.Fprintf, straight to os.Stdout or os.Stderr
Direct(who, bytes) == [who |-> who, via |-> "fmt", tok |-> <<>>, bytes |-> bytes]

MsgWriteErr == <<69, 114, 114, 111, 114, 32, 97, 116, 116, 101, 109, 112, 116, 105, 110,
                 103, 32, 116, 111, 32, 119, 114, 105, 116, 101, 32, 116, 111, 32, 100,
                 101, 115, 116, 58, 32>>
MsgScanErr == <<69, 114, 114, 111, 114, 32, 114, 101, 99, 105, 101, 118, 105, 110, 103,
                32, 119, 114, 105, 116, 101, 32, 102, 114, 111, 109, 32, 115, 111, 117,
                114, 99, 101, 58, 32>>
ErrTooLong == <<98, 117, 102, 105, 111, 46, 83, 99, 97, 110, 110, 101, 114, 58, 32, 116,
                111, 107, 101, 110, 32, 116, 111, 111, 32, 108, 111, 110, 103>>
ErrText == <<69, 79, 70>>

\* scan.Scan() needs more bytes and reads them from the pipe: the Read takes
\* what the Write in progress holds, as far as the buffer has room
ScanRead(f) ==
    /\ proc = "running"
    /\ fpc[f] = "scan"
    /\ ~ScanLines(sbuf[f], sEOF[f]).has
    /\ ~sEOF[f]
    /\ Len(sbuf[f]) < MaxScanTokenSize
    /\ pipeBuf[f] # <<>>
    /\ LET k == Min(Len(pipeBuf[f]), MaxScanTokenSize - Len(sbuf[f]))
       IN  /\ sbuf' = [sbuf EXCEPT ![f] = @ \o SubSeq(pipeBuf[f], 1, k)]
           /\ pipeBuf' = [pipeBuf EXCEPT ![f] = SubSeq(@, k + 1, Len(@))]
    /\ UNCHANGED <<proc, exitCode, mpc, cname, input, tpc, twg, src, pipeClosed, sEOF,
                   fpc, wtok, logErrsLeft, tagVars, resVars, fanVars>>

\* the pipe's writer is closed and nothing is left to read: Read returns io.EOF
ScanEOF(f) ==
    /\ proc = "running"
    /\ fpc[f] = "scan"
    /\ ~ScanLines(sbuf[f], sEOF[f]).has
    /\ ~sEOF[f]
    /\ Len(sbuf[f]) < MaxScanTokenSize
    /\ pipeBuf[f] = <<>>
    /\ pipeClosed[f]
    /\ sEOF' = [sEOF EXCEPT ![f] = TRUE]
    /\ UNCHANGED <<proc, exitCode, mpc, cname, input, tpc, twg, src, pipeBuf, pipeClosed,
                   sbuf, fpc, wtok, logErrsLeft, tagVars, resVars, fanVars>>

\* scan.Scan() returns true; the loop body builds the unit and calls
\* fullWrite(w, unit), which calls w.Write(unit)
ScanToken(f) ==
    /\ proc = "running"
    /\ fpc[f] = "scan"
    /\ LET t == ScanLines(sbuf[f], sEOF[f])
       IN  /\ t.has
           /\ sbuf' = [sbuf EXCEPT ![f] = SubSeq(@, t.advance + 1, Len(@))]
           /\ wtok' = [wtok EXCEPT ![f] = t.token]
           /\ wbuf' = UnitsAfterAppend(f, LogLine(f, t.token))
    /\ wpc' = [wpc EXCEPT ![f] = "call"]
    /\ fpc' = [fpc EXCEPT ![f] = "write"]
    /\ UNCHANGED <<proc, exitCode, mpc, cname, input, tpc, twg, src, pipeBuf, pipeClosed,
                   sEOF, logErrsLeft, tagVars, resVars,
                   fw, wn, werr, mu, dest, shortWrites, wErrsLeft>>

\* the buffer is full and holds no line: scan.Scan() returns false, with
\* bufio.ErrTooLong
ScanTooLong(f) ==
    /\ proc = "running"
    /\ fpc[f] = "scan"
    /\ ~ScanLines(sbuf[f], sEOF[f]).has
    /\ ~sEOF[f]
    /\ Len(sbuf[f]) >= MaxScanTokenSize
    /\ fpc' = [fpc EXCEPT ![f] = "serr"]
    /\ UNCHANGED <<proc, exitCode, mpc, cname, input, tpc, twg, src, pipeBuf, pipeClosed,
                   sbuf, sEOF, wtok, logErrsLeft, tagVars, resVars, fanVars>>

\* after io.EOF with nothing buffered scan.Scan() returns false, scan.Err()
\* is nil, and the goroutine ends
ScanStop(f) ==
    /\ proc = "running"
    /\ fpc[f] = "scan"
    /\ sEOF[f]
    /\ sbuf[f] = <<>>
    /\ fpc' = [fpc EXCEPT ![f] = "exit"]
    /\ UNCHANGED <<proc, exitCode, mpc, cname, input, tpc, twg, src, pipeBuf, pipeClosed,
                   sbuf, sEOF, wtok, logErrsLeft, tagVars, resVars, fanVars>>

\* fmt.Printf("Error attempting to write to dest: %s\n", err); break; scan.Err()
\* is nil, and the goroutine ends
FramerPrintWriteErr(f) ==
    /\ proc = "running"
    /\ fpc[f] = "werr"
    /\ dest' = [dest EXCEPT !["out"] = Append(@, Direct(f, MsgWriteErr \o ErrText \o <<NL>>))]
    /\ fpc' = [fpc EXCEPT ![f] = "exit"]
    /\ UNCHANGED <<proc, exitCode, mpc, cname, input, tpc, twg, src, pipeBuf, pipeClosed,
                   sbuf, sEOF, wtok, logErrsLeft, tagVars, resVars,
                   fw, wpc, wbuf, wn, werr, mu, shortWrites, wErrsLeft>>

\* fmt.Printf("Error recieving write from source: %s\n", scanErr), and the
\* goroutine ends
FramerPrintScanErr(f) ==
    /\ proc = "running"
    /\ fpc[f] = "serr"
    /\ dest' = [dest EXCEPT !["out"] = Append(@, Direct(f, MsgScanErr \o ErrTooLong \o <<NL>>))]
    /\ fpc' = [fpc EXCEPT ![f] = "exit"]
    /\ UNCHANGED <<proc, exitCode, mpc, cname, input, tpc, twg, src, pipeBuf, pipeClosed,
                   sbuf, sEOF, wtok, logErrsLeft, tagVars, resVars,
                   fw, wpc, wbuf, wn, werr, mu, shortWrites, wErrsLeft>>

\* client.Logs copies the next bytes of a stream to its writer: a Write on the
\* pipe, which returns when the scanner has read all of it
PipeWrite(f) ==
    /\ proc = "running"
    /\ tpc[ContOf(f)] = "stream"
    /\ \A g \in DOMAIN pipeBuf : ContOf(g) = ContOf(f) => pipeBuf[g] = <<>>
    /\ ~pipeClosed[f]
    /\ src[f] # <<>>
    /\ \E k \in 1..Min(MaxChunk, Len(src[f])) :
          /\ pipeBuf' = [pipeBuf EXCEPT ![f] = SubSeq(src[f], 1, k)]
          /\ src' = [src EXCEPT ![f] = SubSeq(@, k + 1, Len(@))]
    /\ UNCHANGED <<proc, exitCode, mpc, cname, input, tpc, twg, pipeClosed, sbuf, sEOF,
                   fpc, wtok, logErrsLeft, tagVars, resVars, fanVars>>

\* The writer of a pipe is closed after the stream's last byte was written.
\* Nothing in main.go closes the io.Writer LineWriter returns, and client.Logs
\* is handed an io.Writer: only a framer used on its own sees its input end.
PipeClose(f) ==
    /\ proc = "running"
    /\ tpc[ContOf(f)] = "stream"
    /\ pipeBuf[f] = <<>>
    /\ src[f] = <<>>
    /\ ~pipeClosed[f]
    /\ pipeClosed' = [pipeClosed EXCEPT ![f] = TRUE]
    /\ UNCHANGED <<proc, exitCode, mpc, cname, input, tpc, twg, src, pipeBuf, sbuf, sEOF,
                   fpc, wtok, logErrsLeft, tagVars, resVars, fanVars>>

\* The bytes of the model's streams: a letter, "\r" and "\n"
StreamBytes == {120, CR, NL}

\* LineWriter(wOut, tag, nil) used on its own: its goroutine is started, and
\* the holder of the returned writer is about to write a stream of any bytes
\* to it, in pieces, and to close it.
FrameInit ==
    /\ ResIdle
    /\ noColor \in BOOLEAN
    /\ cname = <<<<97>>>>
    /\ tagsA = cname
    /\ tagsB = <<>>
    /\ tblA = <<TagConfig(cname, postFix)>>
    /\ tblB = <<>>
    /\ proc = "running"
    /\ exitCode = 0
    /\ mpc = "wait"
    /\ input \in [1..1 -> SeqsUpTo(StreamBytes, MaxStream)]
    /\ tpc = <<"stream">>
    /\ twg = 1
    /\ src = input
    /\ pipeBuf = <<<<>>>>
    /\ pipeClosed = <<FALSE>>
    /\ sbuf = <<<<>>>>
    /\ sEOF = <<FALSE>>
    /\ fpc = <<"scan">>
    /\ wtok = <<<<>>>>
    /\ logErrsLeft = 0
    /\ fw = <<"out">>
    /\ wpc = <<"idle">>
    /\ wbuf = <<<<>>>>
    /\ wn = <<0>>
    /\ werr = <<0>>
    /\ mu = [s \in Sinks |-> {}]
    /\ dest = [s \in Sinks |-> <<>>]
    /\ shortWrites = FALSE
    /\ wErrsLeft \in 0..MaxWriteErrs

FrameNext ==
    \E f \in DOMAIN fpc :
        \/ PipeWrite(f)
        \/ PipeClose(f)
        \/ ScanRead(f)
        \/ ScanEOF(f)
        \/ ScanToken(f)
        \/ ScanTooLong(f)
        \/ ScanStop(f)
        \/ FiwLock(f)
        \/ FullWriteStep(f)
        \/ FiwUnlock(f)
        \/ FramerPrintWriteErr(f)
        \/ FramerPrintScanErr(f)

SpecFrame == FrameInit /\ [][FrameNext]_vars

\* The lines of a stream: each the bytes up to and including the next "\n",
\* the last one the bytes left without a "\n", if any
RECURSIVE SplitLines(_)
SplitLines(in) ==
    IF in = <<>> THEN <<>>
    ELSE LET i == IndexByte(in, NL)
         IN  IF i = 0 THEN <<in>>
             ELSE <<SubSeq(in, 1, i)>> \o SplitLines(SubSeq(in, i + 1, Len(in)))

\* a line without its "\n" and without a "\r" before that
Content(line) ==
    IF line # <<>> /\ line[Len(line)] = NL
    THEN DropCR(SubSeq(line, 1, Len(line) - 1))
    ELSE DropCR(line)

\* the framer of a stream read its input to the end and wrote every unit
FramedToEnd(f) == fpc[f] = "exit" /\ sEOF[f] /\ werr[f] = 0

\* the bytes of the Write calls a framer's FanInWriter made for it
UnitsOf(f) ==
    LET recs == SelectSeq(dest[fw[f]], LAMBDA r : r.who = f /\ r.via = "fiw")
    IN  [i \in 1..Len(recs) |-> recs[i].bytes]

\* C2 as claimed, for a stream without "\r": one unit per line, each the tag
\* and the line as it is in the stream, no "\n" added to an unterminated rest.
LineFramingAsClaimed ==
    (FramedToEnd(1) /\ CR \notin Range(input[1])) =>
        UnitsOf(1) = [i \in 1..Len(SplitLines(input[1])) |->
                         FramerTag(1) \o SplitLines(input[1])[i]]

\* C2, amended: a framer without a colour whose input ended emits one unit per
\* line, in order, each the tag, the line without its "\n" (and without a
\* "\r" before it) and one "\n": an unterminated rest gets a "\n" too.
LineFraming ==
    FramedToEnd(1) =>
        UnitsOf(1) = [i \in 1..Len(SplitLines(input[1])) |->
                         FramerTag(1) \o Content(SplitLines(input[1])[i]) \o <<NL>>]

\* the stream "x\nx" was framed to its end: two units
LineFramingWitness ==
    /\ FramedToEnd(1)
    /\ input[1] = <<120, NL, 120>>
    /\ Len(UnitsOf(1)) = 2
    /\ UnitsOf(1)[2] = FramerTag(1) \o <<120, NL>>

(***************************************************************************)
(* main and logContainers                                                  *)
(***************************************************************************)
MsgLoggerFailed == <<76, 111, 103, 103, 101, 114, 32, 102, 97, 105, 108, 101, 100, 32,
                     102, 111, 114, 32>>
MsgStream == <<83, 116, 114, 101, 97, 109, 32>>
MsgExited == <<32, 101, 120, 105, 116, 101, 100, 46, 10>>
MsgNoServices == <<78, 111, 32, 115, 101, 114, 118, 105, 99, 101, 115, 32, 109, 101, 101,
                   116, 32, 116, 104, 101, 32, 99, 114, 105, 116, 101, 114, 105, 97, 10>>
MsgResolveErr == <<69, 114, 114, 111, 114, 32, 114, 101, 116, 114, 105, 101, 118, 105, 110,
                   103, 32, 99, 111, 110, 116, 97, 105, 110, 101, 114, 32, 105, 110, 102,
                   111, 114, 109, 97, 116, 105, 111, 110, 58, 32>>

\* who writes straight to os.Stdout or os.Stderr: main, or a follow goroutine
MainWriter == 100
TaskWriter(c) == 100 + c

\* The streams of the model's containers.  Every line has its own letter.
\* A scenario gives the bytes of the first container's OutputStream, of its
\* ErrorStream and of the second container's OutputStream, and color.NoColor
\* (TRUE when os.Stdout is not a terminal): two lines, nothing, one line; or
\* a line with an unterminated rest, nothing, one line; or a run of
\* MaxScanTokenSize bytes without a "\n", which the scanner gives up on,
\* nothing, one line; or, without colours, a line, an empty line, nothing.
\* Every other stream is empty.
Letter(f, i) == 100 + 10 * f + i
Scenarios ==
    { << <<Letter(1, 1), NL, Letter(1, 2), NL>>, <<>>, <<Letter(3, 1), NL>>, FALSE >>,
      << <<Letter(1, 1), NL, Letter(1, 2)>>, <<>>, <<Letter(3, 1), NL>>, FALSE >>,
      << [i \in 1..MaxScanTokenSize |-> Letter(1, 1)], <<>>, <<Letter(3, 1), NL>>, FALSE >>,
      << <<Letter(1, 1), NL>>, <<NL>>, <<>>, TRUE >> }

Conts == 1..NumConts
Framers == 1..(2 * NumConts)

\* main, after flag.Parse and docker.NewClientFromEnv
MainInit ==
    /\ ResIdle
    /\ tagsA = <<>>
    /\ tagsB = <<>>
    /\ tblA = <<>>
    /\ tblB = <<>>
    /\ proc = "running"
    /\ exitCode = 0
    /\ mpc = "main"
    /\ cname = [c \in Conts |-> IF c = 1 THEN <<97>> ELSE <<98, 98>>]
    /\ \E sc \in Scenarios :
          /\ input = [f \in Framers |-> IF f <= 3 THEN sc[f] ELSE <<>>]
          /\ noColor = sc[4]
    /\ tpc = [c \in Conts |-> "unborn"]
    /\ twg = 0
    /\ src = input
    /\ pipeBuf = [f \in Framers |-> <<>>]
    /\ pipeClosed = [f \in Framers |-> FALSE]
    /\ sbuf = [f \in Framers |-> <<>>]
    /\ sEOF = [f \in Framers |-> FALSE]
    /\ fpc = [f \in Framers |-> "none"]
    /\ wtok = [f \in Framers |-> <<>>]
    /\ logErrsLeft \in 0..MaxFaults
    /\ fw = [f \in Framers |-> IF f % 2 = 0 THEN "err" ELSE "out"]
    /\ wpc = [f \in Framers |-> "idle"]
    /\ wbuf = [f \in Framers |-> <<>>]
    /\ wn = [f \in Framers |-> 0]
    /\ werr = [f \in Framers |-> 0]
    /\ mu = [s \in Sinks |-> {}]
    /\ dest = [s \in Sinks |-> <<>>]
    /\ shortWrites = FALSE
    /\ wErrsLeft = MaxFaults - logErrsLeft

\* What getContainersByNames may return to main: an error; no container and
\* no error; the model's containers.
Resolutions ==
    { [conts |-> <<>>, isNil |-> TRUE, err |-> 1],
      [conts |-> <<>>, isNil |-> FALSE, err |-> 0],
      [conts |-> [c \in Conts |-> c], isNil |-> FALSE, err |-> 0] }

\* The mutant of MainResolve: main treats no container as an error.
MainResolveEmptyIsError ==
    /\ proc = "running"
    /\ mpc = "main"
    /\ \E r \in Resolutions :
          /\ ret' = <<r>>
          /\ IF r.err # 0 \/ Len(r.conts) <= 0
             THEN /\ dest' = [dest EXCEPT !["err"] =
                                Append(@, Direct(MainWriter,
                                                 MsgResolveErr \o ErrText \o <<NL>>))]
                  /\ proc' = "exited"
                  /\ exitCode' = 1
                  /\ mpc' = "exit"
             ELSE /\ mpc' = "log"
                  /\ UNCHANGED <<dest, proc, exitCode>>
    /\ UNCHANGED <<cname, input, tpc, twg, src, pipeBuf, pipeClosed, sbuf, sEOF, fpc,
                   wtok, logErrsLeft, tagVars,
                   names, rpc, gpc, gres, ch, chClosed, rwg, rconts,
                   fw, wpc, wbuf, wn, werr, mu, shortWrites, wErrsLeft>>

\* conts, err := getContainersByNames(client, flag.Args()), and what main does
\* with an error (report, os.Exit(1)), with no container (report, return: the
\* process ends with status 0) and with containers (logContainers)
MainResolve ==
    /\ proc = "running"
    /\ mpc = "main"
    /\ \E r \in Resolutions :
          /\ ret' = <<r>>
          /\ IF r.err # 0
             THEN /\ dest' = [dest EXCEPT !["err"] =
                                Append(@, Direct(MainWriter,
                                                 MsgResolveErr \o ErrText \o <<NL>>))]
                  /\ proc' = "exited"
                  /\ exitCode' = 1
                  /\ mpc' = "exit"
             ELSE IF Len(r.conts) <= 0
             THEN /\ dest' = [dest EXCEPT !["out"] =
                                Append(@, Direct(MainWriter, MsgNoServices))]
                  /\ proc' = "exited"
                  /\ exitCode' = 0
                  /\ mpc' = "exit"
             ELSE /\ mpc' = "log"
                  /\ UNCHANGED <<dest, proc, exitCode>>
    /\ UNCHANGED <<cname, input, tpc, twg, src, pipeBuf, pipeClosed, sbuf, sEOF, fpc,
                   wtok, logErrsLeft, tagVars,
                   names, rpc, gpc, gres, ch, chClosed, rwg, rconts,
                   fw, wpc, wbuf, wn, werr, mu, shortWrites, wErrsLeft>>

\* getTags(conts): the task name label of each container, in the order of conts
GetTags(conts) == [i \in 1..Len(conts) |-> cname[conts[i]]]

\* logContainers up to wg.Wait(): the tags, the two FanInWriters, wg.Add and
\* one goroutine per container
LogContainersStart ==
    /\ proc = "running"
    /\ mpc = "log"
    /\ tagsA' = SortStrings(GetTags(ret[1].conts))
    /\ tblA' = <<TagConfig(GetTags(ret[1].conts), postFix)>>
    /\ twg' = twg + Len(cname)
    /\ tpc' = [c \in DOMAIN tpc |-> "start"]
    /\ mpc' = "wait"
    /\ UNCHANGED <<proc, exitCode, cname, input, src, pipeBuf, pipeClosed, sbuf, sEOF,
                   fpc, wtok, logErrsLeft, noColor, tagsB, tblB, resVars, fanVars>>

\* the goroutine evaluates LineWriter(wOut, tag, nil) and LineWriter(wErr, tag,
\* color.New(color.FgHiRed)), which start the framers, and calls client.Logs,
\* which opens the container's log stream, or fails to
TaskCallLogs(c) ==
    /\ proc = "running"
    /\ tpc[c] = "start"
    /\ fpc' = [fpc EXCEPT ![OutFramer(c)] = "scan", ![ErrFramer(c)] = "scan"]
    /\ \E ok \in (IF logErrsLeft > 0 THEN BOOLEAN ELSE {TRUE}) :
          /\ tpc' = [tpc EXCEPT ![c] = IF ok THEN "stream" ELSE "failed"]
          /\ logErrsLeft' = IF ok THEN logErrsLeft ELSE logErrsLeft - 1
    /\ UNCHANGED <<proc, exitCode, mpc, cname, input, twg, src, pipeBuf, pipeClosed,
                   sbuf, sEOF, wtok, tagVars, resVars, fanVars>>

\* the stream has ended and all of it was written: client.Logs returns nil
LogsReturnNil(c) ==
    /\ proc = "running"
    /\ tpc[c] = "stream"
    /\ \A f \in {OutFramer(c), ErrFramer(c)} : pipeBuf[f] = <<>> /\ src[f] = <<>>
    /\ tpc' = [tpc EXCEPT ![c] = "ok"]
    /\ UNCHANGED <<proc, exitCode, mpc, cname, input, twg, src, pipeBuf, pipeClosed,
                   sbuf, sEOF, fpc, wtok, logErrsLeft, tagVars, resVars, fanVars>>

\* reading the stream fails: client.Logs returns the error
LogsReturnErr(c) ==
    /\ proc = "running"
    /\ tpc[c] = "stream"
    /\ \A f \in {OutFramer(c), ErrFramer(c)} : pipeBuf[f] = <<>>
    /\ logErrsLeft > 0
    /\ logErrsLeft' = logErrsLeft - 1
    /\ tpc' = [tpc EXCEPT ![c] = "midfailed"]
    /\ UNCHANGED <<proc, exitCode, mpc, cname, input, twg, src, pipeBuf, pipeClosed,
                   sbuf, sEOF, fpc, wtok, tagVars, resVars, fanVars>>

\* err != nil: fmt.Fprintf(os.Stderr, "Logger failed for %s: %s\n", name, err)
TaskReportFailure(c) ==
    /\ proc = "running"
    /\ tpc[c] \in {"failed", "midfailed"}
    /\ dest' = [dest EXCEPT !["err"] =
                  Append(@, Direct(TaskWriter(c),
                                   MsgLoggerFailed \o cname[c] \o <<58, SP>>
                                       \o ErrText \o <<NL>>))]
    /\ tpc' = [tpc EXCEPT ![c] = IF @ = "failed" THEN "exiting" ELSE "midexiting"]
    /\ UNCHANGED <<proc, exitCode, mpc, cname, input, twg, src, pipeBuf, pipeClosed,
                   sbuf, sEOF, fpc, wtok, logErrsLeft, tagVars, resVars,
                   fw, wpc, wbuf, wn, werr, mu, shortWrites, wErrsLeft>>

\* The mutant of TaskExit: the goroutine returns instead of ending the process.
TaskExitReturns(c) ==
    /\ proc = "running"
    /\ tpc[c] \in {"exiting", "midexiting"}
    /\ twg' = twg - 1
    /\ tpc' = [tpc EXCEPT ![c] = IF @ = "exiting" THEN "exited" ELSE "midexited"]
    /\ UNCHANGED <<proc, exitCode, mpc, cname, input, src, pipeBuf, pipeClosed,
                   sbuf, sEOF, fpc, wtok, logErrsLeft, tagVars, resVars, fanVars>>

\* os.Exit(1)
TaskExit(c) ==
    /\ proc = "running"
    /\ tpc[c] \in {"exiting", "midexiting"}
    /\ proc' = "exited"
    /\ exitCode' = 1
    /\ tpc' = [tpc EXCEPT ![c] = IF @ = "exiting" THEN "exited" ELSE "midexited"]
    /\ UNCHANGED <<mpc, cname, input, twg, src, pipeBuf, pipeClosed,
                   sbuf, sEOF, fpc, wtok, logErrsLeft, tagVars, resVars, fanVars>>

\* err == nil: fmt.Printf("Stream %s exited.\n", name), and the deferred wg.Done()
TaskFinish(c) ==
    /\ proc = "running"
    /\ tpc[c] = "ok"
    /\ dest' = [dest EXCEPT !["out"] =
                  Append(@, Direct(TaskWriter(c), MsgStream \o cname[c] \o MsgExited))]
    /\ twg' = twg - 1
    /\ tpc' = [tpc EXCEPT ![c] = "done"]
    /\ UNCHANGED <<proc, exitCode, mpc, cname, input, src, pipeBuf, pipeClosed,
                   sbuf, sEOF, fpc, wtok, logErrsLeft, tagVars, resVars,
                   fw, wpc, wbuf, wn, werr, mu, shortWrites, wErrsLeft>>

\* The mutant of LogContainersReturn: logContainers returns without wg.Wait().
LogContainersReturnNoWait ==
    /\ proc = "running"
    /\ mpc = "wait"
    /\ mpc' = "returned"
    /\ UNCHANGED <<proc, exitCode, cname, input, tpc, twg, src, pipeBuf, pipeClosed,
                   sbuf, sEOF, fpc, wtok, logErrsLeft, tagVars, resVars, fanVars>>

\* wg.Wait() returns, and logContainers with it
LogContainersReturn ==
    /\ proc = "running"
    /\ mpc = "wait"
    /\ twg = 0
    /\ mpc' = "returned"
    /\ UNCHANGED <<proc, exitCode, cname, input, tpc, twg, src, pipeBuf, pipeClosed,
                   sbuf, sEOF, fpc, wtok, logErrsLeft, tagVars, resVars, fanVars>>

\* main returns: the process ends with status 0, and every goroutine with it
MainReturn ==
    /\ proc = "running"
    /\ mpc = "returned"
    /\ proc' = "exited"
    /\ exitCode' = 0
    /\ mpc' = "exit"
    /\ UNCHANGED <<cname, input, tpc, twg, src, pipeBuf, pipeClosed,
                   sbuf, sEOF, fpc, wtok, logErrsLeft, tagVars, resVars, fanVars>>

Next ==
    \/ MainResolve
    \/ LogContainersStart
    \/ LogContainersReturn
    \/ MainReturn
    \/ \E c \in DOMAIN tpc :
          \/ TaskCallLogs(c)
          \/ LogsReturnNil(c)
          \/ LogsReturnErr(c)
          \/ TaskReportFailure(c)
          \/ TaskExit(c)
          \/ TaskFinish(c)
    \/ \E f \in DOMAIN fpc :
          \/ PipeWrite(f)
          \/ ScanRead(f)
          \/ ScanToken(f)
          \/ ScanTooLong(f)
          \/ FiwLock(f)
          \/ FullWriteStep(f)
          \/ FiwUnlock(f)
          \/ FramerPrintWriteErr(f)
          \/ FramerPrintScanErr(f)

Spec == MainInit /\ [][Next]_vars

\* The lines of a framer's stream, in the order of the stream, and those of
\* them that end in "\n"
Lines(f) ==
    LET ls == SplitLines(input[f]) IN [i \in 1..Len(ls) |-> Content(ls[i])]
TerminatedLines(f) ==
    LET ls == SelectSeq(SplitLines(input[f]), LAMBDA l : l[Len(l)] = NL)
    IN  [i \in 1..Len(ls) |-> Content(ls[i])]

\* The lines of a framer of which bytes reached its sink, in the order of the sink
Delivered(f) ==
    LET recs == SelectSeq(dest[fw[f]],
                          LAMBDA r : r.who = f /\ r.via = "fiw" /\ r.bytes # <<>>)
    IN  [i \in 1..Len(recs) |-> recs[i].tok]

IsPrefix(s, t) == Len(s) <= Len(t) /\ s = SubSeq(t, 1, Len(s))

FramersOf(c) == {OutFramer(c), ErrFramer(c)}

\* C5 as claimed: when the stream read of one source has failed after some of
\* its lines were written, and its goroutine has finished, every line of every
\* other source is at the sink.
PartialFailureIsolation ==
    \A b \in DOMAIN tpc :
        (tpc[b] = "midexited" /\ \E f \in FramersOf(b) : Delivered(f) # <<>>)
            => \A a \in DOMAIN tpc \ {b} :
                  \A f \in FramersOf(a) : Delivered(f) = TerminatedLines(f)

\* C8: the lines of one stream that reached its sink are, in the order of the
\* sink, the first lines of the stream in the order of the stream, whatever
\* the other streams wrote to the sink in between.
PerStreamOrder ==
    \A f \in DOMAIN fpc : IsPrefix(Delivered(f), Lines(f))

\* Two lines of one stream are at the sink, with a line of another container's
\* stream between them.
PerStreamOrderWitness ==
    \E i, j, k \in 1..Len(dest["out"]) :
        /\ i < j /\ j < k
        /\ dest["out"][i].who = OutFramer(1) /\ dest["out"][i].via = "fiw"
        /\ dest["out"][j].who = OutFramer(2) /\ dest["out"][j].via = "fiw"
        /\ dest["out"][k].who = OutFramer(1) /\ dest["out"][k].via = "fiw"
        /\ Delivered(OutFramer(1)) = Lines(OutFramer(1))

AllDone == \A c \in DOMAIN tpc : tpc[c] = "done"

\* C9: logContainers has returned only if the goroutine of every container
\* has finished, and while it waits, it can return exactly when all of them
\* have finished.
JoinBarrier ==
    /\ mpc = "returned" => AllDone
    /\ (mpc = "wait" /\ proc = "running") => (ENABLED LogContainersReturn <=> AllDone)

\* logContainers has returned after both containers' lines reached the sink.
JoinBarrierWitness ==
    /\ mpc = "returned"
    /\ AllDone
    /\ \A c \in DOMAIN tpc : Delivered(OutFramer(c)) # <<>>

\* the report of a failed client.Logs for container c is on os.Stderr
Reported(c) ==
    \E i \in 1..Len(dest["err"]) :
        dest["err"][i] = Direct(TaskWriter(c),
                                MsgLoggerFailed \o cname[c] \o <<58, SP>>
                                    \o ErrText \o <<NL>>)

\* C10: once client.Logs has failed to open the stream of a container, the
\* process does not end with status 0; the goroutine reports the failure with
\* the container's task name before it ends the process, and when it has done
\* that the process has ended, with a status other than 0.
FatalOpenFailure ==
    \A c \in DOMAIN tpc :
        /\ tpc[c] \in {"failed", "exiting", "exited"} /\ proc = "exited" => exitCode # 0
        /\ tpc[c] \in {"exiting", "exited"} => Reported(c)
        /\ tpc[c] = "exited" => proc = "exited"

\* The open of one container failed and ended the process while another
\* container was streaming and had a line at the sink.
FatalOpenFailureWitness ==
    \E c \in DOMAIN tpc :
        /\ tpc[c] = "exited"
        /\ \E a \in DOMAIN tpc \ {c} :
              tpc[a] = "stream" /\ Delivered(OutFramer(a)) # <<>>

(***************************************************************************)
(* FanInWriter.Write: what a returned call has done                        *)
(***************************************************************************)
\* the bytes the destination s took from caller p, in the order it took them
WrittenBy(p, s) ==
    LET recs == SelectSeq(dest[s], LAMBDA r : r.who = p /\ r.via = "fiw")
    IN  Concat([i \in 1..Len(recs) |-> recs[i].bytes])

\* C11: a Write(b) call that has returned has released the lock; n is the
\* number of bytes of b the destination took, from the front of b; and the
\* call returned no error only if the destination took all of b.
NoSilentPartialWrite ==
    \A p \in DOMAIN wpc :
        wpc[p] = "ret" =>
            /\ p \notin mu[fw[p]]
            /\ WrittenBy(p, fw[p]) = SubSeq(wbuf[p], 1, wn[p])
            /\ werr[p] = 0 => wn[p] = Len(wbuf[p])

\* One call returned without an error after the destination took its payload
\* in several parts, another returned an error with a part of its payload
\* taken, and the lock is free.
NoSilentPartialWriteWitness ==
    /\ \E p \in DOMAIN wpc :
          /\ wpc[p] = "ret" /\ werr[p] = 0
          /\ Cardinality({i \in 1..Len(dest[fw[p]]) : dest[fw[p]][i].who = p}) > 1
    /\ \E q \in DOMAIN wpc :
          wpc[q] = "ret" /\ werr[q] # 0 /\ wn[q] > 0 /\ wn[q] < Len(wbuf[q])
    /\ mu["out"] = {}

(***************************************************************************)
(* main: what it does with what getContainersByNames returned              *)
(***************************************************************************)
NoTaskStarted == \A c \in DOMAIN tpc : tpc[c] = "unborn"

\* C12: when getContainersByNames returned no container and no error, main
\* has printed "No services meet the criteria" to os.Stdout and nothing else,
\* no follow goroutine was started and the process has ended with status 0;
\* when it returned an error, no follow goroutine was started and the process
\* has ended with status 1.
EmptyResultNotError ==
    \A i \in 1..Len(ret) :
        /\ (ret[i].err = 0 /\ ret[i].conts = <<>>) =>
              /\ proc = "exited" /\ exitCode = 0
              /\ NoTaskStarted
              /\ dest["out"] = <<Direct(MainWriter, MsgNoServices)>>
              /\ dest["err"] = <<>>
        /\ ret[i].err # 0 =>
              /\ proc = "exited" /\ exitCode = 1
              /\ NoTaskStarted
              /\ dest["out"] = <<>>
              /\ dest["err"] = <<Direct(MainWriter, MsgResolveErr \o ErrText \o <<NL>>)>>

\* the resolution gave no container and no error, and the process has ended
EmptyResultNotErrorWitness ==
    /\ ret # <<>>
    /\ ret[1].err = 0 /\ ret[1].conts = <<>>
    /\ proc = "exited"
    /\ input[1] # <<>>

(***************************************************************************)
(* A framer that has stopped, and the follow call that feeds it            *)
(***************************************************************************)
\* the framer's goroutine has ended after a Write of its sink failed
StoppedOnWriteErr(f) == fpc[f] = "exit" /\ werr[f] # 0

\* the framer's "Error attempting to write to dest" line is on os.Stdout
WriteErrLogged(f) ==
    \E i \in 1..Len(dest["out"]) :
        dest["out"][i] = Direct(f, MsgWriteErr \o ErrText \o <<NL>>)

\* C13 as claimed: when a framer has stopped after a failed sink write, the
\* failure is logged, the write that failed is the framer's last, and the
\* follow call of its container is not inside a Write on the framer's pipe,
\* which nobody will read any more.
LocalSinkWriteError ==
    \A f \in DOMAIN fpc :
        StoppedOnWriteErr(f) =>
            /\ WriteErrLogged(f)
            /\ wpc[f] = "idle"
            /\ pipeBuf[f] = <<>>
\* the framer's scan.Scan() is in a Read of the pipe, with no byte to read
WaitingForInput(f) ==
    /\ fpc[f] = "scan"
    /\ ~ScanLines(sbuf[f], sEOF[f]).has
    /\ ~sEOF[f]
    /\ Len(sbuf[f]) < MaxScanTokenSize
    /\ pipeBuf[f] = <<>>

\* the follow call of container c, client.Logs, has returned nil
FollowFinished(c) == tpc[c] \in {"ok", "done"}

\* C14 as claimed: after the follow call of a container has finished, no
\* framer of that container waits for input (which nobody can send it any
\* more): its goroutine has ended or is about to write what it has read.
FramerLifetime ==
    \A c \in DOMAIN tpc :
        FollowFinished(c) => \A f \in FramersOf(c) : ~WaitingForInput(f)

(***************************************************************************)
(* The units of the two framers of one container                           *)
(***************************************************************************)
\* C15 as claimed, for the framers of the OutputStreams (no colour): every
\* Write a sink took whole from such a framer is the tag, one line of the
\* framer's own stream and "\n".
LineIntegrity ==
    \A s \in Sinks : \A i \in 1..Len(dest[s]) :
        LET r == dest[s][i]
        IN  (r.via = "fiw" /\ r.who \in DOMAIN fpc /\ FramerColor(r.who) = 0 /\ r.bytes # <<>>)
                => \E k \in 1..Len(Lines(r.who)) :
                      r.bytes = FramerTag(r.who) \o Lines(r.who)[k] \o <<NL>>

(***************************************************************************)
(* Who writes to os.Stdout                                                 *)
(***************************************************************************)
\* C16 as claimed: while logContainers runs, whoever makes os.Stdout take
\* bytes is inside FanInWriter.Write on wOut and holds its lock.
ExclusiveDestination ==
    [][(mpc = "wait" /\ dest'["out"] # dest["out"])
          => /\ dest'["out"][Len(dest'["out"])].via = "fiw"
             /\ dest'["out"][Len(dest'["out"])].who \in mu["out"]]_vars

(***************************************************************************)
(* What is at the sinks when logContainers returns                         *)
(***************************************************************************)
\* the framer's goroutine met no error: it scans, or writes a unit
Unfailed(f) == fpc[f] \in {"scan", "write"} /\ werr[f] = 0

\* C17 as claimed: when logContainers has returned, every line that ends in
\* "\n" of every stream whose framer met no error is at the framer's sink.
NoLineLost ==
    mpc = "returned" =>
        \A f \in DOMAIN fpc : Unfailed(f) => Delivered(f) = TerminatedLines(f)

(***************************************************************************)
(* tagConfig: the value of a tag                                           *)
(***************************************************************************)
\* the tag the name at position i of the sorted names is to have: the i-th
\* colour of the palette, counted around, on the name, spaces up to the
\* longest name's length, and the separator
ExpectedTag(sorted, i) ==
    LET lens == {Len(sorted[j]) : j \in 1..Len(sorted)}
        width == CHOOSE m \in lens : \A l \in lens : l <= m
    IN  Sprint(colors[((i - 1) % Len(colors)) + 1],
               sorted[i] \o [k \in 1..(width - Len(sorted[i])) |-> SP] \o <<SP, 124, SP>>)

\* C18 as claimed: the lookup gives the name at every position i of the
\* sorted names the tag of position i.
TagValueAsClaimed ==
    tblA # <<>> =>
        LET sorted == SortStrings(tagsA)
        IN  \A i \in 1..Len(sorted) :
                TagLookup(tblA[1], sorted[i]) = ExpectedTag(sorted, i)

\* C18, amended: the lookup gives every name the tag of the last position at
\* which the name stands in the sorted names.
TagValue ==
    tblA # <<>> =>
        LET sorted == SortStrings(tagsA)
        IN  \A i \in 1..Len(sorted) :
                (\A j \in (i + 1)..Len(sorted) : sorted[j] # sorted[i])
                    => TagLookup(tblA[1], sorted[i]) = ExpectedTag(sorted, i)

\* the table of "svc22" and "svc1", with colours: "svc1  | " in the first
\* colour of the palette and "svc22 | " in the second
TagValueWitness ==
    /\ tblA # <<>>
    /\ tagsA = ExampleTags
    /\ ~noColor
    /\ TagLookup(tblA[1], <<115, 118, 99, 49>>) =
          <<ESC, 91, 57, 49, 109, 115, 118, 99, 49, SP, SP, 124, SP, ESC, 91, 48, 109>>
    /\ TagLookup(tblA[1], <<115, 118, 99, 50, 50>>) =
          <<ESC, 91, 57, 50, 109, 115, 118, 99, 50, 50, SP, 124, SP, ESC, 91, 48, 109>>

\* C19 as claimed: the lookup of a name the table was not built from fails.
UndefinedTagFails ==
    tblA # <<>> =>
        \A name \in Names \ Range(tagsA) : LookupOutcome(tblA[1], name).failed

(***************************************************************************)
(* getContainersByNames: what a successful resolution returns              *)
(***************************************************************************)
\* the IDs of a list in the order in which each is seen first
RECURSIVE IDsFirstSeen(_, _)
IDsFirstSeen(l, seen) ==
    IF l = <<>> THEN <<>>
    ELSE IF Head(l) \in seen THEN IDsFirstSeen(Tail(l), seen)
    ELSE <<Head(l)>> \o IDsFirstSeen(Tail(l), seen \cup {Head(l)})

\* the orders in which the lookups may have reported
ReportOrders ==
    {f \in [1..Len(names) -> 1..Len(names)] :
        \A i, j \in 1..Len(names) : f[i] = f[j] => i = j}

\* C20: with filters given, getContainersByNames goes past wg.Wait() only
\* after every lookup goroutine has sent its result; a goroutine that is to
\* send finds room in the open channel; and when every lookup succeeded, the
\* IDs of the returned list, each where it is seen first, are those of the
\* lookups' lists put together in an order in which the lookups reported.
\* (That an ID is returned once only is C3.)
ResolutionComplete ==
    /\ (Len(names) > 0 /\ rpc \in {"range", "dedupe", "returned"}) =>
          \A i \in 1..Len(names) : gpc[i] = "done"
    /\ \A i \in 1..Len(names) : gpc[i] = "send" => (Len(ch) < Len(names) /\ ~chClosed)
    /\ (Len(names) > 0 /\ rpc = "returned" /\ \A i \in 1..Len(names) : gres[i].err = 0) =>
          /\ ret[1].err = 0
          /\ \E f \in ReportOrders :
                IDsFirstSeen(ret[1].conts, {}) =
                    IDsFirstSeen(Concat([k \in 1..Len(names) |-> gres[f[k]].conts]), {})

\* Two lookups succeeded, the second reported first, both found a container
\* the other did not find, and the resolution has returned.
ResolutionCompleteWitness ==
    /\ rpc = "returned"
    /\ Len(names) = 2
    /\ gres[1].err = 0 /\ gres[2].err = 0
    /\ Range(gres[1].conts) \ Range(gres[2].conts) # {}
    /\ Range(gres[2].conts) \ Range(gres[1].conts) # {}
    /\ ret[1].conts = gres[2].conts \o gres[1].conts

====
